---- MODULE Spec2Model ----
(***************************************************************************)
(* Model of src/interface_poisoning_analyzer.py: the entity store built by *)
(* analyze(), the cycle-tolerant depth walk _get_interface_depth, the      *)
(* metric record computed by calculate_ipi and the ranking and banding     *)
(* done by generate_report.                                                *)
(*                                                                         *)
(* Four specifications share the definitions below:                        *)
(*   Spec       analyze() phase by phase, then calculate_ipi and           *)
(*              generate_report on the finished store; a declaration may   *)
(*              repeat a name (two overloads of a method, an interface     *)
(*              implemented twice);                                        *)
(*   SpecDepth  _get_interface_depth as a small-step machine with an       *)
(*              explicit call stack, over every bounded extends graph;     *)
(*   SpecScore  the arithmetic of calculate_ipi and the banding of         *)
(*              generate_report for one interface, its counts drawn from   *)
(*              bounded sets;                                              *)
(*   SpecRank   the same for two interfaces, for the ranking.              *)
(*                                                                         *)
(* Numbers: the code computes in binary floating point and rounds with     *)
(* round(x, 3).  The model computes the exact rational num/den and rounds  *)
(* it half-to-even to an integer number of thousandths; floating-point     *)
(* representation error is not modelled.                                   *)
(***************************************************************************)
EXTENDS Integers, Sequences, FiniteSets, TLC

VARIABLES
    interfaces,      \* result.interfaces: name -> InterfaceInfo
    ifaceKeys,       \* insertion order of the keys of result.interfaces
    classes,         \* result.classes: name -> class_info
    classKeys,       \* insertion order of the keys of result.classes
    total_classes,   \* result.total_classes
    max_call_depth,  \* self.max_call_depth
    pc,              \* position inside analyze(), or "done" after it
    depthIdx,        \* position of the loop of _calculate_call_depths
    records,         \* last record returned by calculate_ipi, per interface
    report,          \* last result of generate_report
    mode,            \* depth machine: "idle", "call", "ret" or "done"
    query,           \* depth machine: name of the top-level query
    arg,             \* depth machine: iface_name of the call being entered
    stack,           \* depth machine: frames of the suspended calls
    visited,         \* depth machine: the set object shared by one walk
    ret,             \* depth machine: value returned by the last call
    signals          \* SpecScore/SpecRank: the counts calculate_ipi reads

vars == <<interfaces, ifaceKeys, classes, classKeys, total_classes,
          max_call_depth, pc, depthIdx, records, report,
          mode, query, arg, stack, visited, ret, signals>>

storeVars == <<interfaces, ifaceKeys, classes, classKeys,
               total_classes, max_call_depth>>
machineVars == <<mode, query, arg, stack, visited, ret>>

-----------------------------------------------------------------------------
(* Bounds and name universes *)

IfaceNames == {"A", "B"}
ClassNames == {"X"}
MethodNames == {"f"}
DepthNames == {"A", "B", "C"}

MaxDeclared == 3
MaxCalls == 1

MaxDepthEdges == 4

ScoreMaxClasses == 7
ScoreMaxImpl == 2
ScoreMaxMethods == 3
ScoreMaxDepth == 6

RankMaxClasses == 7
RankMaxImpl == 1
RankMaxMethods == 4
RankMaxDepth == 1

-----------------------------------------------------------------------------
(* Helpers *)

Max(a, b) == IF a > b THEN a ELSE b

Range(s) == {s[i] : i \in DOMAIN s}

SeqsUpTo(S, n) == UNION {[1..k -> S] : k \in 0..n}

EmptyMap == [x \in {} |-> x]

Put(f, k, v) == [x \in (DOMAIN f) \cup {k} |-> IF x = k THEN v ELSE f[x]]

KeysAfterPut(keys, k) == IF k \in Range(keys) THEN keys ELSE Append(keys, k)

(* An optional value: None, or Some(x) holding x. *)
None == <<>>
Some(x) == <<x>>
Get(o) == o[1]

(* The depth machine before its first query: no interface name. *)
NoName == "-"

-----------------------------------------------------------------------------
(* _get_interface_depth, big step.  The set `visited` is one Python object *)
(* mutated by every call of the walk, so each call returns the depth       *)
(* together with the set as it left it.                                    *)

MissingDepth == 1    \* "if iface_name not in self.result.interfaces: return 1"
LeafDepth == 1       \* "if not iface_info.extends: return 1"

(* Mutant of CycleDepth: a revisited interface counts a level, as a       *)
(* missing one does.                                                       *)
CycleDepthAsMissing == MissingDepth

CycleDepth == 0      \* "if iface_name in visited: return 0"

(* Mutant of ReturnDepth: the level of the interface itself is not added. *)
ReturnDepthNoLevel(max_depth) == max_depth

ReturnDepth(max_depth) == max_depth + 1    \* "return max_depth + 1"

RECURSIVE DepthWalk(_, _, _)
RECURSIVE ParentsWalk(_, _, _, _, _)

ParentsWalk(store, ext, i, vis, maxd) ==
    IF i > Len(ext)
    THEN [depth |-> maxd, visited |-> vis]
    ELSE LET r == DepthWalk(store, ext[i], vis)
         IN  ParentsWalk(store, ext, i + 1, r.visited, Max(maxd, r.depth))

DepthWalk(store, name, vis) ==
    IF name \in vis
    THEN [depth |-> CycleDepth, visited |-> vis]
    ELSE IF name \notin DOMAIN store
    THEN [depth |-> MissingDepth, visited |-> vis]
    ELSE LET v1 == vis \cup {name}
             ext == store[name].extends
         IN  IF ext = <<>>
             THEN [depth |-> LeafDepth, visited |-> v1]
             ELSE LET r == ParentsWalk(store, ext, 1, v1, 0)
                  IN  [depth |-> ReturnDepth(r.depth), visited |-> r.visited]

FreshVisited == {}

GetInterfaceDepth(store, name) == DepthWalk(store, name, FreshVisited).depth

-----------------------------------------------------------------------------
(* _get_interface_depth, small step: one action per call entered and one   *)
(* per return to the caller.  A frame is a suspended call: the interface   *)
(* it is walking, the index of the parent being visited and max_depth.     *)

InterfaceInfo(ms, ex) ==
    [methods |-> ms,
     implementations |-> <<>>,
     usages |-> <<>>,
     method_calls |-> [m \in Range(ms) |-> 0],
     extends |-> ex]

DepthStart(n) ==
    /\ pc = "query"
    /\ mode \in {"idle", "done"}
    /\ query' = n
    /\ arg' = n
    /\ visited' = FreshVisited
    /\ stack' = <<>>
    /\ ret' = 0
    /\ mode' = "call"
    /\ UNCHANGED <<storeVars, pc, depthIdx, records, report, signals>>

DepthEnter ==
    /\ pc = "query"
    /\ mode = "call"
    /\ IF arg \in visited
       THEN /\ ret' = CycleDepth
            /\ mode' = "ret"
            /\ UNCHANGED <<visited, stack, arg>>
       ELSE IF arg \notin DOMAIN interfaces
       THEN /\ ret' = MissingDepth
            /\ mode' = "ret"
            /\ UNCHANGED <<visited, stack, arg>>
       ELSE /\ visited' = visited \cup {arg}
            /\ IF interfaces[arg].extends = <<>>
               THEN /\ ret' = LeafDepth
                    /\ mode' = "ret"
                    /\ UNCHANGED <<stack, arg>>
               ELSE /\ stack' = Append(stack, [name |-> arg, i |-> 1, max_depth |-> 0])
                    /\ arg' = interfaces[arg].extends[1]
                    /\ mode' = "call"
                    /\ UNCHANGED ret
    /\ UNCHANGED <<storeVars, pc, depthIdx, records, report, signals, query>>

DepthReturn ==
    /\ pc = "query"
    /\ mode = "ret"
    /\ IF stack = <<>>
       THEN /\ mode' = "done"
            /\ UNCHANGED <<stack, arg, ret>>
       ELSE LET top == stack[Len(stack)]
                m == Max(top.max_depth, ret)
                ext == interfaces[top.name].extends
            IN  IF top.i < Len(ext)
                THEN /\ stack' = [stack EXCEPT ![Len(stack)] =
                                     [top EXCEPT !.i = top.i + 1, !.max_depth = m]]
                     /\ arg' = ext[top.i + 1]
                     /\ mode' = "call"
                     /\ UNCHANGED ret
                ELSE /\ stack' = SubSeq(stack, 1, Len(stack) - 1)
                     /\ ret' = ReturnDepth(m)
                     /\ mode' = "ret"
                     /\ UNCHANGED arg
    /\ UNCHANGED <<storeVars, pc, depthIdx, records, report, signals, query, visited>>

RECURSIVE KeysOf(_)
KeysOf(S) == IF S = {} THEN <<>>
             ELSE LET k == CHOOSE x \in S : TRUE IN <<k>> \o KeysOf(S \ {k})

RECURSIVE SumOf(_, _)
SumOf(f, S) == IF S = {} THEN 0
               ELSE LET k == CHOOSE x \in S : TRUE IN f[k] + SumOf(f, S \ {k})

(* The stores over DepthNames with at most MaxDepthEdges extends edges in  *)
(* all: each interface of the store gets a slice of one sequence of edge   *)
(* targets.                                                                *)
Before(keys, n) == {keys[k] : k \in {j \in DOMAIN keys : \A i \in 1..j : keys[i] # n}}

StoreOfEdges(D, len, targets) ==
    LET keys == KeysOf(D)
    IN  [n \in D |->
           InterfaceInfo(<<>>, SubSeq(targets,
                                      SumOf(len, Before(keys, n)) + 1,
                                      SumOf(len, Before(keys, n)) + len[n]))]

DepthStores ==
    UNION {UNION {{StoreOfEdges(D, len, targets) :
                     targets \in [1..SumOf(len, D) -> DepthNames]}
                  : len \in {l \in [D -> 0..MaxDepthEdges] : SumOf(l, D) <= MaxDepthEdges}}
           : D \in SUBSET DepthNames}

InitDepth ==
    /\ interfaces \in DepthStores
    /\ ifaceKeys = KeysOf(DOMAIN interfaces)
    /\ classes = EmptyMap
    /\ classKeys = <<>>
    /\ total_classes = 0
    /\ max_call_depth = 1
    /\ pc = "query"
    /\ depthIdx = 0
    /\ records = EmptyMap
    /\ report = None
    /\ mode = "idle"
    /\ query = NoName
    /\ arg = NoName
    /\ stack = <<>>
    /\ visited = {}
    /\ ret = 0
    /\ signals = <<>>

NextDepth ==
    \/ \E n \in DepthNames : DepthStart(n)
    \/ DepthEnter
    \/ DepthReturn

SpecDepth == InitDepth /\ [][NextDepth]_vars /\ WF_vars(DepthEnter) /\ WF_vars(DepthReturn)

(* The two models of _get_interface_depth agree. *)
MachineAgreesWithWalk ==
    (pc = "query" /\ mode = "done") => ret = GetInterfaceDepth(interfaces, query)

-----------------------------------------------------------------------------
(* calculate_ipi: the counts it reads, and the record it returns.          *)
(* Weights are in hundredths; SIR, UUR, UMR, NCD and IPI of a record are   *)
(* in thousandths, as round(x, 3) leaves them.                             *)

ALPHA == 25
BETA == 15
GAMMA == 25
DELTA == 35

UnusedMethods(info) ==
    Cardinality({m \in DOMAIN info.method_calls : info.method_calls[m] = 0})

Signals(store, name) ==
    [interface |-> name,
     ic |-> Len(store[name].implementations),
     iu |-> Len(store[name].usages),
     total_methods |-> Len(store[name].methods),
     unused |-> UnusedMethods(store[name]),
     cd |-> GetInterfaceDepth(store, name)]

SirNum(sg) == 1
SirDen(sg) == IF sg.ic > 0 THEN sg.ic ELSE 1

UurNum(sg, tc) == sg.iu
UurDen(sg, tc) == Max(tc, 1)

UmrNum(sg) == IF sg.total_methods > 0 THEN sg.unused ELSE 0
UmrDen(sg) == IF sg.total_methods > 0 THEN sg.total_methods ELSE 1

NcdNum(sg, mcd) == IF mcd > 1 THEN sg.cd - 1 ELSE 0
NcdDen(sg, mcd) == IF mcd > 1 THEN mcd - 1 ELSE 1

IpiNum(sg, tc, mcd) ==
      ALPHA * SirNum(sg) * UurDen(sg, tc) * UmrDen(sg) * NcdDen(sg, mcd)
    + BETA * (UurDen(sg, tc) - UurNum(sg, tc)) * SirDen(sg) * UmrDen(sg) * NcdDen(sg, mcd)
    + GAMMA * UmrNum(sg) * SirDen(sg) * UurDen(sg, tc) * NcdDen(sg, mcd)
    + DELTA * NcdNum(sg, mcd) * SirDen(sg) * UurDen(sg, tc) * UmrDen(sg)

IpiDen(sg, tc, mcd) ==
    100 * SirDen(sg) * UurDen(sg, tc) * UmrDen(sg) * NcdDen(sg, mcd)

(* round(n/d, 3) in thousandths, for d > 0: nearest, ties to even. *)
Round3(n, d) ==
    LET q == (1000 * n) \div d
        r == 1000 * n - q * d
    IN  IF 2 * r > d \/ (2 * r = d /\ q % 2 = 1) THEN q + 1 ELSE q

IpiRecord(sg, tc, mcd) ==
    [interface |-> sg.interface,
     IC |-> sg.ic,
     SIR |-> Round3(SirNum(sg), SirDen(sg)),
     IU |-> sg.iu,
     UUR |-> Round3(UurNum(sg, tc), UurDen(sg, tc)),
     total_methods |-> sg.total_methods,
     unused_methods |-> sg.unused,
     UMR |-> Round3(UmrNum(sg), UmrDen(sg)),
     CallDepth |-> sg.cd,
     NCD |-> Round3(NcdNum(sg, mcd), NcdDen(sg, mcd)),
     IPI |-> Round3(IpiNum(sg, tc, mcd), IpiDen(sg, tc, mcd))]

-----------------------------------------------------------------------------
(* generate_report: the records in store order, sorted by descending IPI   *)
(* with list.sort (stable, also with reverse=True), then the three bands.  *)

RECURSIVE InsertDesc(_, _)
InsertDesc(sorted, r) ==
    IF sorted = <<>> THEN <<r>>
    ELSE IF Head(sorted).IPI >= r.IPI
         THEN <<Head(sorted)>> \o InsertDesc(Tail(sorted), r)
         ELSE <<r>> \o sorted

RECURSIVE SortDesc(_, _)
SortDesc(rs, k) ==
    IF k = 0 THEN <<>> ELSE InsertDesc(SortDesc(rs, k - 1), rs[k])

IsHigh(r) == r.IPI > 700
IsMedium(r) == 400 <= r.IPI /\ r.IPI <= 700
IsLow(r) == r.IPI < 400

ReportOf(rs) ==
    LET results == SortDesc(rs, Len(rs))
    IN  [results |-> results,
         high |-> SelectSeq(results, IsHigh),
         medium |-> SelectSeq(results, IsMedium),
         low |-> SelectSeq(results, IsLow)]

-----------------------------------------------------------------------------
(* analyze(), one action per phase.  What the excluded collaborators read  *)
(* from the files (declarations, regex matches, call-site counts) is the   *)
(* input of the action that reads it.                                      *)

ClassInfo(impl) == [implements |-> impl]

(* The size of the parsed project: the methods and extends entries of its *)
(* interfaces and the implements entries of its classes.                  *)
DeclaredIn(ifs, cls) ==
      SumOf([n \in DOMAIN ifs |-> Len(ifs[n].methods) + Len(ifs[n].extends)], DOMAIN ifs)
    + SumOf([c \in DOMAIN cls |-> Len(cls[c].implements)], DOMAIN cls)

ProcessInterface(n, ms, ex) ==
    /\ pc = "parse"
    /\ DeclaredIn(Put(interfaces, n, InterfaceInfo(ms, ex)), classes) <= MaxDeclared
    /\ interfaces' = Put(interfaces, n, InterfaceInfo(ms, ex))
    /\ ifaceKeys' = KeysAfterPut(ifaceKeys, n)
    /\ UNCHANGED <<classes, classKeys, total_classes, max_call_depth, pc,
                   depthIdx, records, report, machineVars, signals>>

ProcessClass(n, impl) ==
    /\ pc = "parse"
    /\ DeclaredIn(interfaces, Put(classes, n, ClassInfo(impl))) <= MaxDeclared
    /\ classes' = Put(classes, n, ClassInfo(impl))
    /\ classKeys' = KeysAfterPut(classKeys, n)
    /\ UNCHANGED <<interfaces, ifaceKeys, total_classes, max_call_depth, pc,
                   depthIdx, records, report, machineVars, signals>>

AppendImplementation(ifs, iface_name, class_name) ==
    IF iface_name \in DOMAIN ifs
    THEN [ifs EXCEPT ![iface_name].implementations = Append(@, class_name)]
    ELSE ifs

RECURSIVE ImplementsLoop(_, _, _, _)
ImplementsLoop(ifs, class_name, impl, j) ==
    IF j > Len(impl) THEN ifs
    ELSE ImplementsLoop(AppendImplementation(ifs, impl[j], class_name),
                        class_name, impl, j + 1)

RECURSIVE FindImplementationsLoop(_, _)
FindImplementationsLoop(ifs, k) ==
    IF k > Len(classKeys) THEN ifs
    ELSE FindImplementationsLoop(
             ImplementsLoop(ifs, classKeys[k], classes[classKeys[k]].implements, 1),
             k + 1)

FindImplementations ==
    /\ pc = "parse"
    /\ interfaces' = FindImplementationsLoop(interfaces, 1)
    /\ pc' = "usages"
    /\ UNCHANGED <<ifaceKeys, classes, classKeys, total_classes, max_call_depth,
                   depthIdx, records, report, machineVars, signals>>

AppendUsage(ifs, iface_name, class_name, matched) ==
    IF matched /\ class_name \notin Range(ifs[iface_name].usages)
    THEN [ifs EXCEPT ![iface_name].usages = Append(@, class_name)]
    ELSE ifs

RECURSIVE UsagesOfClass(_, _, _, _)
UsagesOfClass(ifs, class_name, match, j) ==
    IF j > Len(ifaceKeys) THEN ifs
    ELSE UsagesOfClass(
             AppendUsage(ifs, ifaceKeys[j], class_name, match[class_name, ifaceKeys[j]]),
             class_name, match, j + 1)

RECURSIVE FindUsagesLoop(_, _, _)
FindUsagesLoop(ifs, match, k) ==
    IF k > Len(classKeys) THEN ifs
    ELSE FindUsagesLoop(UsagesOfClass(ifs, classKeys[k], match, 1), match, k + 1)

FindUsages(match) ==
    /\ pc = "usages"
    /\ interfaces' = FindUsagesLoop(interfaces, match, 1)
    /\ pc' = "calls"
    /\ UNCHANGED <<ifaceKeys, classes, classKeys, total_classes, max_call_depth,
                   depthIdx, records, report, machineVars, signals>>

RECURSIVE CountMethods(_, _, _, _)
CountMethods(ifs, iface_name, cnt, j) ==
    IF j > Len(ifs[iface_name].methods) THEN ifs
    ELSE LET m == ifs[iface_name].methods[j]
         IN  CountMethods([ifs EXCEPT ![iface_name].method_calls[m] = @ + cnt[m]],
                          iface_name, cnt, j + 1)

RECURSIVE CallsOfClass(_, _, _)
CallsOfClass(ifs, cnt, j) ==
    IF j > Len(ifaceKeys) THEN ifs
    ELSE CallsOfClass(CountMethods(ifs, ifaceKeys[j], cnt, 1), cnt, j + 1)

RECURSIVE AnalyzeMethodCallsLoop(_, _, _)
AnalyzeMethodCallsLoop(ifs, counts, k) ==
    IF k > Len(classKeys) THEN ifs
    ELSE AnalyzeMethodCallsLoop(CallsOfClass(ifs, counts[classKeys[k]], 1), counts, k + 1)

AnalyzeMethodCalls(counts) ==
    /\ pc = "calls"
    /\ interfaces' = AnalyzeMethodCallsLoop(interfaces, counts, 1)
    /\ pc' = "depths"
    /\ depthIdx' = 1
    /\ UNCHANGED <<ifaceKeys, classes, classKeys, total_classes, max_call_depth,
                   records, report, machineVars, signals>>

(* Mutant of RaiseMax: the comparison is the wrong way round. *)
RaiseMaxFlipped(current, depth) == IF depth < current THEN depth ELSE current

(* Mutant of RaiseMax: the depth of the last interface is stored. *)
RaiseMaxLatest(current, depth) == depth

RaiseMax(current, depth) == IF depth > current THEN depth ELSE current

CalculateCallDepthsStep ==
    /\ pc = "depths"
    /\ depthIdx <= Len(ifaceKeys)
    /\ max_call_depth' =
           RaiseMax(max_call_depth, GetInterfaceDepth(interfaces, ifaceKeys[depthIdx]))
    /\ depthIdx' = depthIdx + 1
    /\ UNCHANGED <<interfaces, ifaceKeys, classes, classKeys, total_classes, pc,
                   records, report, machineVars, signals>>

SetTotalClasses ==
    /\ pc = "depths"
    /\ depthIdx > Len(ifaceKeys)
    /\ total_classes' = Cardinality(DOMAIN classes)
    /\ pc' = "done"
    /\ UNCHANGED <<interfaces, ifaceKeys, classes, classKeys, max_call_depth,
                   depthIdx, records, report, machineVars, signals>>

CalculateIpiOf(name) ==
    IF name \notin DOMAIN interfaces THEN None
    ELSE Some(IpiRecord(Signals(interfaces, name), total_classes, max_call_depth))

(* Mutant of CalculateIpi: the depth of the queried interface is stored   *)
(* as the new max_call_depth.                                             *)
CalculateIpiStoringDepth(name) ==
    /\ pc = "done"
    /\ records' = [records EXCEPT ![name] = CalculateIpiOf(name)]
    /\ max_call_depth' = IF name \in DOMAIN interfaces
                          THEN GetInterfaceDepth(interfaces, name)
                          ELSE max_call_depth
    /\ UNCHANGED <<interfaces, ifaceKeys, classes, classKeys, total_classes,
                   pc, depthIdx, report, machineVars, signals>>

CalculateIpi(name) ==
    /\ pc = "done"
    /\ records' = [records EXCEPT ![name] = CalculateIpiOf(name)]
    /\ UNCHANGED <<storeVars, pc, depthIdx, report, machineVars, signals>>

(* generate_report and export_json call calculate_ipi for every interface *)
(* of the store, in store order.                                          *)
StoreRecords == [k \in 1..Len(ifaceKeys) |-> Get(CalculateIpiOf(ifaceKeys[k]))]

AllRecords == [n \in IfaceNames |-> CalculateIpiOf(n)]

GenerateReport ==
    /\ pc = "done"
    /\ records' = AllRecords
    /\ report' = Some(ReportOf(StoreRecords))
    /\ UNCHANGED <<storeVars, pc, depthIdx, machineVars, signals>>

ExportJson ==
    /\ pc = "done"
    /\ records' = AllRecords
    /\ UNCHANGED <<storeVars, pc, depthIdx, report, machineVars, signals>>

Init ==
    /\ interfaces = EmptyMap
    /\ ifaceKeys = <<>>
    /\ classes = EmptyMap
    /\ classKeys = <<>>
    /\ total_classes = 0
    /\ max_call_depth = 1
    /\ pc = "parse"
    /\ depthIdx = 0
    /\ records = [n \in IfaceNames |-> None]
    /\ report = None
    /\ mode = "idle"
    /\ query = NoName
    /\ arg = NoName
    /\ stack = <<>>
    /\ visited = {}
    /\ ret = 0
    /\ signals = <<>>

Next ==
    \/ \E n \in IfaceNames, ms \in SeqsUpTo(MethodNames, MaxDeclared),
          ex \in SeqsUpTo(IfaceNames, MaxDeclared) : ProcessInterface(n, ms, ex)
    \/ \E n \in ClassNames, impl \in SeqsUpTo(IfaceNames, MaxDeclared) :
          ProcessClass(n, impl)
    \/ FindImplementations
    \/ \E match \in [(DOMAIN classes) \X (DOMAIN interfaces) -> BOOLEAN] :
          FindUsages(match)
    \/ \E counts \in [DOMAIN classes -> [MethodNames -> 0..MaxCalls]] :
          AnalyzeMethodCalls(counts)
    \/ CalculateCallDepthsStep
    \/ SetTotalClasses
    \/ \E n \in IfaceNames : CalculateIpi(n)
    \/ GenerateReport
    \/ ExportJson

Spec == Init /\ [][Next]_vars

-----------------------------------------------------------------------------
(* SpecScore and SpecRank: calculate_ipi and generate_report applied to    *)
(* the counts of a finished analysis.  The counts are those analyze() can  *)
(* leave behind: usages are distinct classes (iu <= total_classes), unused *)
(* methods are among the declared ones, and 1 <= cd <= max_call_depth.     *)

SigSet(name, tc, mcd, maxImpl, maxMeth) ==
    {[interface |-> name, ic |-> a, iu |-> b,
      total_methods |-> tu[1], unused |-> tu[2], cd |-> d] :
        a \in 0..maxImpl, b \in 0..tc,
        tu \in {p \in (0..maxMeth) \X (0..maxMeth) : p[2] <= p[1]},
        d \in 1..mcd}

(* The exact IPI lies midway between two thousandths.  What round() does  *)
(* there depends on the floating-point error of the sum, so these counts  *)
(* are left out of SpecScore and SpecRank.                                *)
IpiIsTie(sg, tc, mcd) ==
    /\ (2000 * IpiNum(sg, tc, mcd)) % IpiDen(sg, tc, mcd) = 0
    /\ (1000 * IpiNum(sg, tc, mcd)) % IpiDen(sg, tc, mcd) # 0

SignalRecords == [k \in 1..Len(signals) |->
                    IpiRecord(signals[k], total_classes, max_call_depth)]

GenerateReportOfSignals ==
    /\ pc = "score"
    /\ report = None
    /\ report' = Some(ReportOf(SignalRecords))
    /\ UNCHANGED <<storeVars, pc, depthIdx, records, machineVars, signals>>

InitAbstract ==
    /\ interfaces = EmptyMap
    /\ ifaceKeys = <<>>
    /\ classes = EmptyMap
    /\ classKeys = <<>>
    /\ pc = "score"
    /\ depthIdx = 0
    /\ records = EmptyMap
    /\ report = None
    /\ mode = "idle"
    /\ query = NoName
    /\ arg = NoName
    /\ stack = <<>>
    /\ visited = {}
    /\ ret = 0

InitScore ==
    /\ InitAbstract
    /\ total_classes \in 0..ScoreMaxClasses
    /\ max_call_depth \in 1..ScoreMaxDepth
    /\ signals \in {<<sg>> : sg \in SigSet("A", total_classes, max_call_depth,
                                           ScoreMaxImpl, ScoreMaxMethods)}
    /\ ~IpiIsTie(signals[1], total_classes, max_call_depth)

NextScore == GenerateReportOfSignals

SpecScore == InitScore /\ [][NextScore]_vars

InitRank ==
    /\ InitAbstract
    /\ total_classes \in 0..RankMaxClasses
    /\ max_call_depth \in 1..RankMaxDepth
    /\ signals \in {<<a, b>> :
                      a \in SigSet("A", total_classes, max_call_depth,
                                   RankMaxImpl, RankMaxMethods),
                      b \in SigSet("B", total_classes, max_call_depth,
                                   RankMaxImpl, RankMaxMethods)}
    /\ max_call_depth = Max(1, Max(signals[1].cd, signals[2].cd))
    /\ \A k \in 1..2 : ~IpiIsTie(signals[k], total_classes, max_call_depth)

NextRank == GenerateReportOfSignals

SpecRank == InitRank /\ [][NextRank]_vars

-----------------------------------------------------------------------------
(* Claims about the depth walk (SpecDepth) *)

DepthDone == pc = "query" /\ mode = "done"

PureTwoCycle ==
    /\ {"A", "B"} \subseteq DOMAIN interfaces
    /\ interfaces["A"].extends = <<"B">>
    /\ interfaces["B"].extends = <<"A">>

(* C1 as stated: on the pure 2-cycle A -> B -> A a top-level query of A or *)
(* of B returns 1.                                                         *)
C1_TwoCycleDepthIsOne ==
    (DepthDone /\ PureTwoCycle /\ query \in {"A", "B"}) => ret = 1

(* C1 amended: on the pure 2-cycle A -> B -> A a top-level query of A or   *)
(* of B terminates and returns 2: the queried interface counts one level,  *)
(* its parent one more, and the revisit of the queried interface 0.        *)
C1_TwoCycleDepthIsTwo ==
    /\ []((DepthDone /\ PureTwoCycle /\ query \in {"A", "B"}) => ret = 2)
    /\ []((PureTwoCycle /\ query \in {"A", "B"} /\ mode \in {"call", "ret"})
            => <>(mode = "done"))

C1_Witness == DepthDone /\ PureTwoCycle /\ query = "B" /\ ret = 2

(* Edges of the extends graph that lead to an interface of the store. *)
Parents(store, n) == IF n \in DOMAIN store THEN Range(store[n].extends) ELSE {}

RECURSIVE ReachIn(_, _, _)
ReachIn(store, frontier, seen) ==
    IF frontier \subseteq seen THEN seen
    ELSE ReachIn(store, UNION {Parents(store, n) : n \in frontier}, seen \cup frontier)

Acyclic(store) ==
    \A n \in DOMAIN store : n \notin ReachIn(store, Parents(store, n), {})

RECURSIVE LongestChain(_, _)
LongestChain(store, n) ==
    IF n \notin DOMAIN store \/ store[n].extends = <<>> THEN 1
    ELSE LET ds == {LongestChain(store, p) : p \in Range(store[n].extends)}
         IN  1 + CHOOSE d \in ds : \A e \in ds : e <= d

(* C2: on an acyclic store a top-level query of I returns the length of    *)
(* the longest chain of extends edges from I: 1 if I has no extends edges  *)
(* or is absent, else 1 + the largest such length among I's parents.       *)
C2_DepthIsLongestChain ==
    (DepthDone /\ Acyclic(interfaces)) => ret = LongestChain(interfaces, query)

(* C3: every top-level query started with an empty visited set eventually  *)
(* returns, whatever the shape of the extends edges, and returns an        *)
(* integer >= 1.                                                           *)
C3_TerminatesPositive ==
    /\ [](DepthDone => (ret \in Nat /\ ret >= 1))
    /\ [](mode \in {"call", "ret"} => <>(mode = "done"))

C3_Witness ==
    /\ DepthDone
    /\ interfaces = [n \in DepthNames |->
                       InterfaceInfo(<<>>, IF n = "A" THEN <<"A", "B">>
                                           ELSE IF n = "B" THEN <<"C">>
                                           ELSE <<"A">>)]
    /\ query = "A"
    /\ ret >= 1

-----------------------------------------------------------------------------
(* Claims about analyze() and calculate_ipi (Spec) *)

Analyzed == pc = "done"

Count(seq, x) == Cardinality({k \in DOMAIN seq : seq[k] = x})

InUnit(n, d) == 0 <= n /\ n <= d

(* C4: after analyze(), for every interface of the store SIR, UUR, UMR and *)
(* NCD as calculate_ipi computes them lie in [0,1], and so does the IPI    *)
(* with the default weights; the depth of the interface never exceeds      *)
(* max_call_depth and its usage count never exceeds total_classes.         *)
C4_MetricsInUnitInterval ==
    Analyzed =>
      \A n \in DOMAIN interfaces :
        LET sg == Signals(interfaces, n)
            r == Get(CalculateIpiOf(n))
        IN  /\ InUnit(SirNum(sg), SirDen(sg))
            /\ InUnit(UurNum(sg, total_classes), UurDen(sg, total_classes))
            /\ InUnit(UmrNum(sg), UmrDen(sg))
            /\ InUnit(NcdNum(sg, max_call_depth), NcdDen(sg, max_call_depth))
            /\ InUnit(IpiNum(sg, total_classes, max_call_depth),
                      IpiDen(sg, total_classes, max_call_depth))
            /\ \A v \in {r.SIR, r.UUR, r.UMR, r.NCD, r.IPI} : InUnit(v, 1000)
            /\ sg.cd <= max_call_depth
            /\ sg.iu <= total_classes

C4_Witness ==
    /\ Analyzed
    /\ records["A"] # None
    /\ Get(records["A"]).CallDepth = 2
    /\ Get(records["A"]).NCD = 1000
    /\ Get(records["A"]).IU = 1
    /\ Get(records["A"]).UUR = 1000
    /\ Get(records["A"]).UMR = 1000
    /\ Get(records["A"]).SIR = 1000
    /\ Get(records["A"]).IPI = 850

(* C6: once _find_implementations has run, the implementations list of    *)
(* each interface holds the name of each type that implements it exactly   *)
(* once, also when the implements list of a type names the interface more  *)
(* than once, so IC is the number of distinct implementing types.          *)
C6_ImplementationsOncePerType ==
    pc \notin {"parse"} =>
      \A n \in DOMAIN interfaces :
        /\ \A c \in DOMAIN classes :
             Count(interfaces[n].implementations, c) =
               (IF n \in Range(classes[c].implements) THEN 1 ELSE 0)
        /\ Len(interfaces[n].implementations) =
             Cardinality({c \in DOMAIN classes : n \in Range(classes[c].implements)})

(* C8: calculate_ipi and the depth query it makes leave the interface      *)
(* store, the class store, total_classes and max_call_depth unchanged, and *)
(* a later call for the same interface, whatever calls for other           *)
(* interfaces or reports came in between, returns the same record; the     *)
(* report holds that record too.                                           *)
C8_CalculateIpiIsPure ==
    [][Analyzed =>
         /\ storeVars' = storeVars
         /\ \A n \in IfaceNames :
              /\ (records[n] # None /\ records'[n] # None) => records'[n] = records[n]
              /\ (records'[n] # None /\ report' # None) =>
                    \E k \in DOMAIN Get(report').results :
                       Get(report').results[k] = Get(records'[n])]_vars

C8_Witness ==
    /\ Analyzed
    /\ records["A"] # None
    /\ records["B"] # None
    /\ report # None
    /\ Get(records["A"]).CallDepth = 2
    /\ Get(records["B"]).CallDepth = 2
    /\ Get(records["A"]).IC = 1

UnusedPositions(info) ==
    Cardinality({k \in DOMAIN info.methods : info.method_calls[info.methods[k]] = 0})

(* C9: for an interface with declared method sequence M, duplicates        *)
(* counted independently, UMR is (number of positions of M whose call      *)
(* count is 0) / |M|, and 0 when M is empty; unused_methods is that        *)
(* numerator.                                                              *)
C9_UmrCountsPositions ==
    Analyzed =>
      \A n \in DOMAIN interfaces :
        records[n] # None =>
          LET info == interfaces[n]
              r == Get(records[n])
          IN  /\ r.UMR = (IF Len(info.methods) = 0 THEN 0
                          ELSE Round3(UnusedPositions(info), Len(info.methods)))
              /\ r.unused_methods = UnusedPositions(info)

CallDepthsRun == pc = "done" \/ (pc = "depths" /\ depthIdx > Len(ifaceKeys))

MaxOfSet(S) == CHOOSE d \in S : \A e \in S : e <= d

(* C10: after _calculate_call_depths has run, max_call_depth is the        *)
(* largest top-level depth of the interfaces of the store, and 1 if there  *)
(* is none; during the run it never decreases; and when every interface    *)
(* has depth 1, NCD is 0 for every interface.                              *)
C10_MaxCallDepth ==
    /\ [](CallDepthsRun =>
            /\ max_call_depth =
                 MaxOfSet({1} \cup {GetInterfaceDepth(interfaces, n) : n \in DOMAIN interfaces})
            /\ (\A n \in DOMAIN interfaces : GetInterfaceDepth(interfaces, n) = 1) =>
                 \A n \in DOMAIN interfaces :
                    /\ NcdNum(Signals(interfaces, n), max_call_depth) = 0
                    /\ Get(CalculateIpiOf(n)).NCD = 0)
    /\ [][max_call_depth' >= max_call_depth]_vars

C10_Witness ==
    /\ pc = "depths"
    /\ depthIdx = 3
    /\ max_call_depth = 2
    /\ GetInterfaceDepth(interfaces, ifaceKeys[1]) = 2
    /\ GetInterfaceDepth(interfaces, ifaceKeys[2]) = 1

-----------------------------------------------------------------------------
(* Claims about banding and ranking (SpecScore, SpecRank) *)

Reported == pc = "score" /\ report # None

SignalOf(r) == CHOOSE sg \in Range(signals) : sg.interface = r.interface

ExactNum(r) == IpiNum(SignalOf(r), total_classes, max_call_depth)
ExactDen(r) == IpiDen(SignalOf(r), total_classes, max_call_depth)

InBand(band, name) == \E k \in DOMAIN band : band[k].interface = name

(* C5: every interface is in exactly one band, decided on the IPI that     *)
(* calculate_ipi computed: HIGH iff IPI > 0.7, MEDIUM iff                  *)
(* 0.4 <= IPI <= 0.7, LOW iff IPI < 0.4.                                   *)
C5_BandsOnComputedIpi ==
    Reported =>
      \A k \in DOMAIN Get(report).results :
        LET r == Get(report).results[k]
            n == ExactNum(r)
            d == ExactDen(r)
        IN  /\ InBand(Get(report).high, r.interface) <=> 10 * n > 7 * d
            /\ InBand(Get(report).medium, r.interface) <=> (4 * d <= 10 * n /\ 10 * n <= 7 * d)
            /\ InBand(Get(report).low, r.interface) <=> 10 * n < 4 * d

PositionOf(name) == CHOOSE k \in DOMAIN signals : signals[k].interface = name

(* C7: the result list is ordered by descending IPI of the interfaces, two *)
(* interfaces of equal IPI keep their insertion order, and no interface of *)
(* smaller IPI precedes one of larger IPI.                                 *)
C7_RankedByIpi ==
    Reported =>
      \A i, j \in DOMAIN Get(report).results :
        i < j =>
          LET a == Get(report).results[i]
              b == Get(report).results[j]
          IN  /\ ExactNum(a) * ExactDen(b) >= ExactNum(b) * ExactDen(a)
              /\ ExactNum(a) * ExactDen(b) = ExactNum(b) * ExactDen(a)
                   => PositionOf(a.interface) < PositionOf(b.interface)

====
